---- MODULE Spec2Model ----
(***************************************************************************)
(* FinishLine: a GPX track viewer (src/src/main.py).                       *)
(*                                                                         *)
(* parse_gpx flattens a track file into samples, filter_coordinates_by_time*)
(* keeps the samples inside a time-of-day window, plot_path centres,       *)
(* rotates and zooms the kept coordinates, and update_plot is the single   *)
(* callback of the Tk form that chains the two.                            *)
(*                                                                         *)
(* Numbers.  Python floats are modelled as exact rationals <<n, d>> in     *)
(* lowest terms with d > 0; +, -, * and / are exact.  math.cos and         *)
(* math.sin are a table of rational values for the angles of Angles (see   *)
(* cos and sin below), so a rotation is computed, never assumed.           *)
(*                                                                         *)
(* Text.  A Python str is a sequence of code points; <= on str is the      *)
(* lexicographic order on those sequences.                                 *)
(***************************************************************************)
EXTENDS Integers, Sequences, FiniteSets, TLC

VARIABLES
    pc,                    \* which call of the program the state is after
    gpx,                   \* the parsed track file: tracks of segments of points
    data,                  \* gps_data / data: list of (lat, lon, time)
    start_time,            \* start_time as last read from start_time_entry
    end_time,              \* end_time as last read from end_time_entry
    zoom_value,            \* zoom slider value, in tenths (resolution 0.1)
    rotation_value,        \* rotation slider value, in degrees
    filtered_coordinates,  \* the nonlocal of create_gui_with_time_filter
    rotated,               \* result of the last rotate_coordinates call
    center,                \* center argument of the last rotate_coordinates call
    view,                  \* the figure last shown by plot_path
    console                \* the lines printed by the last call

vars == <<pc, gpx, data, start_time, end_time, zoom_value, rotation_value,
          filtered_coordinates, rotated, center, view, console>>

----------------------------------------------------------------------------
(* Bounds of the model *)

MaxSamples == 3    \* samples in a list handed to filter_coordinates_by_time
MaxPoints == 3     \* points in a track file handed to parse_gpx
MaxLen == 3        \* coordinates in a list handed to rotate_coordinates, plot_path
MaxFigures == 2    \* figures shown in one session

----------------------------------------------------------------------------
(* Float arithmetic, as exact rationals *)

Abs(x) == IF x < 0 THEN -x ELSE x

RECURSIVE GCD(_, _)
GCD(a, b) == IF b = 0 THEN a ELSE GCD(b, a % b)

Norm(n, d) ==
    LET g == GCD(Abs(n), Abs(d))
        s == IF d < 0 THEN -1 ELSE 1
    IN  <<(s * n) \div g, (s * d) \div g>>

Float(i) == <<i, 1>>

FAdd(x, y) == Norm(x[1] * y[2] + y[1] * x[2], x[2] * y[2])
FSub(x, y) == Norm(x[1] * y[2] - y[1] * x[2], x[2] * y[2])
FMul(x, y) == Norm(x[1] * y[1], x[2] * y[2])
FDiv(x, y) == Norm(x[1] * y[2], x[2] * y[1])
FLe(x, y) == x[1] * y[2] <= y[1] * x[2]
FLt(x, y) == x[1] * y[2] < y[1] * x[2]
FAbs(x) == <<Abs(x[1]), x[2]>>

\* max(...) and min(...) of a non-empty tuple of floats
max(xs) == CHOOSE x \in {xs[i] : i \in 1..Len(xs)} :
               \A j \in 1..Len(xs) : FLe(xs[j], x)
min(xs) == CHOOSE x \in {xs[i] : i \in 1..Len(xs)} :
               \A j \in 1..Len(xs) : FLe(x, xs[j])

----------------------------------------------------------------------------
(* str: sequences of code points *)

Digit(n) == 48 + n
Colon == 58

\* a < b and a <= b on str
StrLt(a, b) ==
    \E i \in 1..(Len(a) + 1) :
        /\ i <= Len(b)
        /\ \A j \in 1..(i - 1) : a[j] = b[j]
        /\ (i = Len(a) + 1 \/ a[i] < b[i])
StrLe(a, b) == a = b \/ StrLt(a, b)

\* "%02d" of strftime
Pad2(n) == <<Digit(n \div 10), Digit(n % 10)>>

\* time.strftime("%H:%M") of a datetime <<hour, minute, second>>
strftime_HM(time) == Pad2(time[1]) \o <<Colon>> \o Pad2(time[2])

\* point.time of a point without <time>
None == <<>>

----------------------------------------------------------------------------
(* parse_gpx, lines 8-21 *)

\* the inner loop without the test of line 19
RECURSIVE PointsLoop_no_test(_, _, _)
PointsLoop_no_test(points, k, acc) ==
    IF k > Len(points) THEN acc
    ELSE PointsLoop_no_test(points, k + 1,
             Append(acc, <<points[k].latitude, points[k].longitude, points[k].time>>))

\* the inner loop over segment.points, appending to acc
RECURSIVE PointsLoop(_, _, _)
PointsLoop(points, k, acc) ==
    IF k > Len(points) THEN acc
    ELSE LET point == points[k]
         IN  PointsLoop(points, k + 1,
                 IF point.time # None
                 THEN Append(acc, <<point.latitude, point.longitude, point.time>>)
                 ELSE acc)

RECURSIVE SegmentsLoop(_, _, _)
SegmentsLoop(segments, k, acc) ==
    IF k > Len(segments) THEN acc
    ELSE SegmentsLoop(segments, k + 1, PointsLoop(segments[k], 1, acc))

RECURSIVE TracksLoop(_, _, _)
TracksLoop(tracks, k, acc) ==
    IF k > Len(tracks) THEN acc
    ELSE TracksLoop(tracks, k + 1, SegmentsLoop(tracks[k], 1, acc))

parse_gpx(file) == TracksLoop(file, 1, <<>>)

----------------------------------------------------------------------------
(* filter_coordinates_by_time, lines 59-76 *)

\* line 74 with the end of the window left out
InWindow_exclusive_end(time_str, start, end) ==
    StrLe(start, time_str) /\ StrLt(time_str, end)

\* line 74 made to wrap around midnight
InWindow_wrapping(time_str, start, end) ==
    IF StrLe(start, end)
    THEN StrLe(start, time_str) /\ StrLe(time_str, end)
    ELSE StrLe(start, time_str) \/ StrLe(time_str, end)

\* the test of line 74
InWindow(time_str, start, end) == StrLe(start, time_str) /\ StrLe(time_str, end)

RECURSIVE FilterLoop(_, _, _, _, _)
FilterLoop(d, start, end, k, filtered) ==
    IF k > Len(d) THEN filtered
    ELSE LET time_str == strftime_HM(d[k][3])
         IN  FilterLoop(d, start, end, k + 1,
                 IF InWindow(time_str, start, end)
                 THEN Append(filtered, <<d[k][1], d[k][2]>>)
                 ELSE filtered)

filter_coordinates_by_time(d, start, end) == FilterLoop(d, start, end, 1, <<>>)

----------------------------------------------------------------------------
(* rotate_coordinates, lines 23-57 *)

\* The angles the model rotates by, in degrees, and math.cos / math.sin of
\* math.radians(angle) for each of them: exact at the multiples of 90, the
\* 3-4-5 triangle for 37 and 53 degrees (cos 37 = 0.7986, sin 37 = 0.6018),
\* and 12/17 = 0.7059 for cos 45 = sin 45 = 0.7071, whose squares do not
\* add up to 1, as the rounded values of the floats do not.
Angles == {0, 37, -37, 45, -45, 53, -53, 90, -90, 180, -180}

cos(angle) ==
    CASE Abs(angle) = 0   -> <<1, 1>>
      [] Abs(angle) = 37  -> <<4, 5>>
      [] Abs(angle) = 45  -> <<12, 17>>
      [] Abs(angle) = 53  -> <<3, 5>>
      [] Abs(angle) = 90  -> <<0, 1>>
      [] Abs(angle) = 180 -> <<-1, 1>>

sin(angle) ==
    LET s == CASE Abs(angle) = 0   -> <<0, 1>>
               [] Abs(angle) = 37  -> <<3, 5>>
               [] Abs(angle) = 45  -> <<12, 17>>
               [] Abs(angle) = 53  -> <<4, 5>>
               [] Abs(angle) = 90  -> <<1, 1>>
               [] Abs(angle) = 180 -> <<0, 1>>
    IN  IF angle < 0 THEN <<-s[1], s[2]>> ELSE s

\* lines 48-49 with the sign of line 49 slipped
RotatePoint_sign_slip(p, cos_theta, sin_theta, c) ==
    LET lat_shifted == FSub(p[1], c[1])
        lon_shifted == FSub(p[2], c[2])
        lat_rotated == FSub(FMul(lat_shifted, cos_theta), FMul(lon_shifted, sin_theta))
        lon_rotated == FSub(FMul(lat_shifted, sin_theta), FMul(lon_shifted, cos_theta))
    IN  <<FAdd(lat_rotated, c[1]), FAdd(lon_rotated, c[2])>>

\* lines 43-55: one point
RotatePoint(p, cos_theta, sin_theta, c) ==
    LET lat_shifted == FSub(p[1], c[1])
        lon_shifted == FSub(p[2], c[2])
        lat_rotated == FSub(FMul(lat_shifted, cos_theta), FMul(lon_shifted, sin_theta))
        lon_rotated == FAdd(FMul(lat_shifted, sin_theta), FMul(lon_shifted, cos_theta))
        lat_final == FAdd(lat_rotated, c[1])
        lon_final == FAdd(lon_rotated, c[2])
    IN  <<lat_final, lon_final>>

rotate_coordinates(coordinates, angle, c) ==
    LET cos_theta == cos(angle)
        sin_theta == sin(angle)
    IN  [k \in 1..Len(coordinates) |->
            RotatePoint(coordinates[k], cos_theta, sin_theta, c)]

----------------------------------------------------------------------------
(* plot_path, lines 78-117 *)

Latitudes(coordinates) == [k \in 1..Len(coordinates) |-> coordinates[k][1]]
Longitudes(coordinates) == [k \in 1..Len(coordinates) |-> coordinates[k][2]]

\* lines 93-94 with - for +
plot_center_half_range(coordinates) ==
    LET latitudes == [k \in 1..Len(coordinates) |-> coordinates[k][1]]
        longitudes == [k \in 1..Len(coordinates) |-> coordinates[k][2]]
    IN  <<FDiv(FSub(max(latitudes), min(latitudes)), Float(2)),
          FDiv(FSub(max(longitudes), min(longitudes)), Float(2))>>

\* lines 92-95: the center of the path
plot_center(coordinates) ==
    LET latitudes == Latitudes(coordinates)
        longitudes == Longitudes(coordinates)
        center_lat == FDiv(FAdd(max(latitudes), min(latitudes)), Float(2))
        center_lon == FDiv(FAdd(max(longitudes), min(longitudes)), Float(2))
    IN  <<center_lat, center_lon>>

\* the slider value, kept in tenths, as the float zoom_slider.get() returns
Zoom(tenths) == Norm(tenths, 10)

\* lines 102-103 multiplying by zoom
zoomed_range_times(values, zoom) == FMul(FSub(max(values), min(values)), zoom)

\* lines 102-103: the zoomed range of one axis
zoomed_range(values, zoom) == FDiv(FSub(max(values), min(values)), zoom)

\* lines 105-106: the bounds of one axis
axis_bounds(mid, range) ==
    <<FSub(mid, FDiv(range, Float(2))), FAdd(mid, FDiv(range, Float(2)))>>

\* lines 100-117: the figure drawn from the rotated coordinates; num is the
\* number plt.figure gives it, xs and ys the plotted line, xlim and ylim
\* the axis limits, title the two values the title is formatted from
Figure(num, c, rotated_coordinates, zoom, rotation) ==
    LET rotated_latitudes == Latitudes(rotated_coordinates)
        rotated_longitudes == Longitudes(rotated_coordinates)
        range_lat == zoomed_range(rotated_latitudes, Zoom(zoom))
        range_lon == zoomed_range(rotated_longitudes, Zoom(zoom))
    IN  [num |-> num,
         xs |-> rotated_longitudes,
         ys |-> rotated_latitudes,
         xlim |-> axis_bounds(c[2], range_lon),
         ylim |-> axis_bounds(c[1], range_lat),
         title |-> <<zoom, rotation>>]

\* no figure has been shown yet
NoFigure == [num |-> 0, xs |-> <<>>, ys |-> <<>>, xlim |-> <<>>, ylim |-> <<>>,
             title |-> <<>>]

NoCoordinates == "No coordinates to plot."
InvalidTimeFormat == "Invalid time format. Use HH:MM."
Traceback == "ValueError: wrong number of values to unpack (expected 2)"

\* plot_path without the test of line 87: unpacking zip() of nothing raises
plot_path_unguarded(coordinates, zoom, rotation, printed) ==
    IF coordinates = <<>> \/ Len(coordinates[1]) # 2
    THEN /\ console' = Append(printed, Traceback)
         /\ UNCHANGED <<view, center, rotated>>
    ELSE /\ center' = plot_center(coordinates)
         /\ rotated' = rotate_coordinates(coordinates, rotation, center')
         /\ view' = Figure(view.num + 1, center', rotated', zoom, rotation)
         /\ console' = printed

\* plot_path as a step: what it prints, and the figure it shows.  Unpacking
\* in line 92 asks for pairs; the samples of data are triples, and Tk reports
\* the ValueError of a callback and keeps the main loop running.
plot_path(coordinates, zoom, rotation, printed) ==
    IF coordinates = <<>>
    THEN /\ console' = Append(printed, NoCoordinates)
         /\ UNCHANGED <<view, center, rotated>>
    ELSE IF Len(coordinates[1]) # 2
    THEN /\ console' = Append(printed, Traceback)
         /\ UNCHANGED <<view, center, rotated>>
    ELSE /\ center' = plot_center(coordinates)
         /\ rotated' = rotate_coordinates(coordinates, rotation, center')
         /\ view' = Figure(view.num + 1, center', rotated', zoom, rotation)
         /\ console' = printed

----------------------------------------------------------------------------
(* create_gui_with_time_filter and update_plot, lines 119-178 *)

\* Whether the call of line 140 raises ValueError.  The function formats
\* each sample's time and compares str with str: neither raises, whatever
\* the two entries hold, so the handler of lines 141-142 never runs.
RaisesValueError(d, start, end) == FALSE

\* lines 139-142 keeping the previous value when the window keeps nothing
TryFilter_keep_when_empty(previous, d, start, end) ==
    IF filter_coordinates_by_time(d, start, end) = <<>>
    THEN previous
    ELSE filter_coordinates_by_time(d, start, end)

\* lines 139-142: the value of filtered_coordinates after the try statement
TryFilter(previous, d, start, end) ==
    IF RaisesValueError(d, start, end)
    THEN previous
    ELSE filter_coordinates_by_time(d, start, end)

\* lines 139-142: what the try statement prints
TryPrinted(d, start, end) ==
    IF RaisesValueError(d, start, end) THEN <<InvalidTimeFormat>> ELSE <<>>

\* The user sets the four controls and presses "Update Plot".
update_plot(st, et, z, r) ==
    /\ pc = "mainloop"
    /\ view.num < MaxFigures
    /\ start_time' = st
    /\ end_time' = et
    /\ zoom_value' = z
    /\ rotation_value' = r
    /\ filtered_coordinates' = TryFilter(filtered_coordinates, data, st, et)
    /\ plot_path(filtered_coordinates', z, r, TryPrinted(data, st, et))
    /\ UNCHANGED <<pc, gpx, data>>

\* lines 180-190 and 147-178: parse the file, build the form, enter mainloop
main ==
    /\ pc = "main"
    /\ data' = parse_gpx(gpx)
    /\ filtered_coordinates' = data'
    /\ start_time' = <<Digit(0), Digit(0), Colon, Digit(0), Digit(0)>>
    /\ end_time' = <<Digit(2), Digit(3), Colon, Digit(5), Digit(9)>>
    /\ zoom_value' = 10
    /\ rotation_value' = 0
    /\ pc' = "mainloop"
    /\ UNCHANGED <<gpx, rotated, center, view, console>>

----------------------------------------------------------------------------
(* The interactive session: main, then any number of presses of the button *)

Pt(lat, lon, time) == [latitude |-> Float(lat), longitude |-> Float(lon), time |-> time]

Str(h, m) == Pad2(h) \o <<Colon>> \o Pad2(m)

\* 08:00 (0,0), 12:00 (1,1), 18:00 (2,2) in one segment
ScenarioFile ==
    << << <<Pt(0, 0, <<8, 0, 0>>), Pt(1, 1, <<12, 0, 0>>), Pt(2, 2, <<18, 0, 0>>)>> >> >>

\* a corner over two tracks, with seconds and a point without a time
CornerFile ==
    << << <<Pt(0, 0, <<8, 0, 0>>), Pt(5, 5, None)>>, <<Pt(2, 0, <<12, 0, 30>>)>> >>,
       << <<Pt(0, 1, <<18, 0, 0>>)>> >> >>

SinglePointFile == << << <<Pt(1, 2, <<12, 0, 0>>)>> >> >>

EmptyFile == <<>>

SessionFiles == {ScenarioFile, CornerFile, SinglePointFile, EmptyFile}

\* what the user types: three well-formed times, and "0"
SessionTimes == {Str(8, 0), Str(12, 0), Str(18, 0), <<Digit(0)>>}

SessionZooms == {10, 20}
SessionRotations == {0, 45}

Init ==
    /\ pc = "main"
    /\ gpx \in SessionFiles
    /\ data = <<>>
    /\ start_time = <<>>
    /\ end_time = <<>>
    /\ zoom_value = 10
    /\ rotation_value = 0
    /\ filtered_coordinates = <<>>
    /\ rotated = <<>>
    /\ center = <<>>
    /\ view = NoFigure
    /\ console = <<>>

Press ==
    \E st \in SessionTimes, et \in SessionTimes,
       z \in SessionZooms, r \in SessionRotations :
        update_plot(st, et, z, r)

Next == main \/ Press

Spec == Init /\ [][Next]_vars

----------------------------------------------------------------------------
(* parse_gpx alone, on every small track file *)

\* a file is built point by point; each point goes into the current segment
\* ("pt"), opens a segment ("seg") or a track ("trk"), or opens a track
\* whose first segment is empty, after a track with no segment ("gap")
Cuts == {"pt", "seg", "trk", "gap"}

AddPoint(file, point, cut) ==
    IF cut = "gap"
    THEN Append(Append(file, <<>>), << <<>>, <<point>> >>)
    ELSE IF cut = "trk" \/ file = <<>>
    THEN Append(file, << <<point>> >>)
    ELSE IF cut = "seg"
    THEN [file EXCEPT ![Len(file)] = Append(@, <<point>>)]
    ELSE [file EXCEPT ![Len(file)] =
             [@ EXCEPT ![Len(@)] = Append(@, point)]]

RECURSIVE BuildFile(_, _, _, _)
BuildFile(points, cuts, k, file) ==
    IF k > Len(points) THEN file
    ELSE BuildFile(points, cuts, k + 1, AddPoint(file, points[k], cuts[k]))

FilePoints ==
    {Pt(0, 0, <<8, 0, 0>>), Pt(1, 1, <<12, 0, 0>>), Pt(5, 5, None)}

GpxFiles ==
    UNION {{BuildFile(points, cuts, 1, <<>>) :
                points \in [1..n -> FilePoints], cuts \in [1..n -> Cuts]} :
           n \in 0..MaxPoints}

InitParse ==
    /\ pc = "main"
    /\ gpx \in GpxFiles
    /\ data = <<>>
    /\ start_time = <<>>
    /\ end_time = <<>>
    /\ zoom_value = 10
    /\ rotation_value = 0
    /\ filtered_coordinates = <<>>
    /\ rotated = <<>>
    /\ center = <<>>
    /\ view = NoFigure
    /\ console = <<>>

NextParse == main

SpecParse == InitParse /\ [][NextParse]_vars

----------------------------------------------------------------------------
(* filter_coordinates_by_time alone, on every small list of samples *)

SamplePool ==
    {<<Float(0), Float(0), <<8, 0, 0>>>>,
     <<Float(3), Float(1), <<9, 59, 59>>>>,
     <<Float(1), Float(1), <<12, 0, 0>>>>,
     <<Float(1), Float(1), <<12, 0, 30>>>>,
     <<Float(2), Float(2), <<18, 0, 0>>>>}

SampleLists == UNION {[1..n -> SamplePool] : n \in 0..MaxSamples}

WindowTimes ==
    {Str(h, m) : h \in {8, 9, 12, 18}, m \in {0, 59}} \cup {Str(0, 0), Str(23, 59)}

InitFilter ==
    /\ pc = "filter"
    /\ gpx = <<>>
    /\ data \in SampleLists
    /\ start_time = <<>>
    /\ end_time = <<>>
    /\ zoom_value = 10
    /\ rotation_value = 0
    /\ filtered_coordinates = <<>>
    /\ rotated = <<>>
    /\ center = <<>>
    /\ view = NoFigure
    /\ console = <<>>

\* one call filter_coordinates_by_time(data, st, et)
call_filter(st, et) ==
    /\ pc = "filter"
    /\ start_time' = st
    /\ end_time' = et
    /\ filtered_coordinates' = filter_coordinates_by_time(data, st, et)
    /\ pc' = "filtered"
    /\ UNCHANGED <<gpx, data, zoom_value, rotation_value, rotated, center,
                   view, console>>

NextFilter == \E st \in WindowTimes, et \in WindowTimes : call_filter(st, et)

SpecFilter == InitFilter /\ [][NextFilter]_vars

----------------------------------------------------------------------------
(* rotate_coordinates alone: there and back *)

CoordinatePool ==
    {<<Float(0), Float(0)>>, <<Float(1), Float(0)>>, <<Float(0), Float(1)>>,
     <<Float(2), Float(2)>>, <<Float(1), Float(2)>>}

CoordinateLists == UNION {[1..n -> CoordinatePool] : n \in 0..MaxLen}

Centers == CoordinatePool \cup {<<Norm(1, 2), Norm(1, 2)>>, <<Norm(3, 2), Float(1)>>}

\* filtered_coordinates holds the list handed over, as in update_plot
InitRotate ==
    /\ pc = "rotate"
    /\ gpx = <<>>
    /\ data = <<>>
    /\ start_time = <<>>
    /\ end_time = <<>>
    /\ zoom_value = 10
    /\ rotation_value \in Angles
    /\ filtered_coordinates \in CoordinateLists
    /\ rotated = <<>>
    /\ center \in Centers
    /\ view = NoFigure
    /\ console = <<>>

\* rotated = rotate_coordinates(coordinates, angle, center)
call_rotate ==
    /\ pc = "rotate"
    /\ rotated' = rotate_coordinates(filtered_coordinates, rotation_value, center)
    /\ pc' = "rotated"
    /\ UNCHANGED <<gpx, data, start_time, end_time, zoom_value, rotation_value,
                   filtered_coordinates, center, view, console>>

\* rotated = rotate_coordinates(rotated, -angle, center)
call_rotate_back ==
    /\ pc = "rotated"
    /\ rotated' = rotate_coordinates(rotated, -rotation_value, center)
    /\ pc' = "restored"
    /\ UNCHANGED <<gpx, data, start_time, end_time, zoom_value, rotation_value,
                   filtered_coordinates, center, view, console>>

NextRotate == call_rotate \/ call_rotate_back

SpecRotate == InitRotate /\ [][NextRotate]_vars

----------------------------------------------------------------------------
(* plot_path alone: one list and one rotation, plotted at several zooms *)

PlotZooms == {10, 20, 25}

InitPlot ==
    /\ pc = "plot"
    /\ gpx = <<>>
    /\ data = <<>>
    /\ start_time = <<>>
    /\ end_time = <<>>
    /\ zoom_value = 10
    /\ rotation_value \in Angles
    /\ filtered_coordinates \in CoordinateLists
    /\ rotated = <<>>
    /\ center = <<>>
    /\ view = NoFigure
    /\ console = <<>>

\* plot_path(coordinates, zoom=z, rotation=rotation)
call_plot(z) ==
    /\ pc = "plot"
    /\ view.num < MaxFigures
    /\ zoom_value' = z
    /\ plot_path(filtered_coordinates, z, rotation_value, <<>>)
    /\ UNCHANGED <<pc, gpx, data, start_time, end_time, rotation_value,
                   filtered_coordinates>>

NextPlot == \E z \in PlotZooms : call_plot(z)

SpecPlot == InitPlot /\ [][NextPlot]_vars

----------------------------------------------------------------------------
(* Vocabulary of the properties *)

IsDigit(ch) == ch \in Digit(0)..Digit(9)

\* a zero-padded HH:MM string of a time of day
WellFormed(s) ==
    /\ Len(s) = 5
    /\ s[3] = Colon
    /\ \A i \in {1, 2, 4, 5} : IsDigit(s[i])
    /\ (s[1] - Digit(0)) * 10 + (s[2] - Digit(0)) <= 23
    /\ (s[4] - Digit(0)) * 10 + (s[5] - Digit(0)) <= 59

\* minutes since midnight of a well-formed string, and of a sample
MinuteOfDay(s) ==
    ((s[1] - Digit(0)) * 10 + (s[2] - Digit(0))) * 60
        + (s[4] - Digit(0)) * 10 + (s[5] - Digit(0))
SampleMinute(sample) == sample[3][1] * 60 + sample[3][2]

\* coords is exactly the (lat, lon) pairs of the samples of d at the
\* indices K, in the order of d
IsSelection(coords, d, K) ==
    /\ Len(coords) = Cardinality(K)
    /\ \A k \in K :
           coords[Cardinality({j \in K : j <= k})] = <<d[k][1], d[k][2]>>

\* the indices of the samples whose HH:MM lies in the window, as str
KeptByText(d, start, end) ==
    {k \in 1..Len(d) : InWindow(strftime_HM(d[k][3]), start, end)}

\* the indices of the samples whose minute lies in the window, as numbers
KeptByMinute(d, start, end) ==
    {k \in 1..Len(d) : /\ MinuteOfDay(start) <= SampleMinute(d[k])
                       /\ SampleMinute(d[k]) <= MinuteOfDay(end)}

\* m is the midpoint of the smallest and the largest of the values xs
IsMidpoint(m, xs) ==
    \E i \in 1..Len(xs), j \in 1..Len(xs) :
        /\ \A k \in 1..Len(xs) : FLe(xs[i], xs[k]) /\ FLe(xs[k], xs[j])
        /\ FMul(Float(2), m) = FAdd(xs[i], xs[j])

IsBoxCenter(c, coords) ==
    /\ IsMidpoint(c[1], Latitudes(coords))
    /\ IsMidpoint(c[2], Longitudes(coords))

\* the button has been pressed; the last press showed a figure
Pressed == pc = "mainloop" /\ (view.num > 0 \/ console # <<>>)
Rendered == pc = "mainloop" /\ view.num > 0 /\ console = <<>>

----------------------------------------------------------------------------
(* Properties of the session *)

\* C1: a press with start_time or end_time that is not a zero-padded HH:MM
\* string reports "Invalid time format", shows no new figure and keeps the
\* figure shown before.
C1_MalformedTimeIsRejected ==
    [][(pc = "mainloop" /\ (~WellFormed(start_time') \/ ~WellFormed(end_time')))
          => (console' = <<InvalidTimeFormat>> /\ view' = view /\ pc' = "mainloop")]_vars

\* C2: a press whose window keeps no sample prints the problem and shows
\* nothing: the figure shown before stays as it was and the main loop goes on.
C2_EmptyViewKeepsFigure ==
    [][(pc = "mainloop" /\ KeptByText(data, start_time', end_time') = {})
          => (console' = <<NoCoordinates>> /\ view' = view /\ pc' = "mainloop")]_vars

C2_Witness ==
    /\ pc = "mainloop"
    /\ view.num > 0
    /\ console = <<NoCoordinates>>
    /\ data # <<>>
    /\ KeptByText(data, start_time, end_time) = {}

\* C4: a press with well-formed start_time later than end_time keeps no
\* sample and ends as an empty view: nothing is shown.
C4_CrossingMidnightIsEmpty ==
    [][(/\ pc = "mainloop"
        /\ WellFormed(start_time') /\ WellFormed(end_time')
        /\ MinuteOfDay(start_time') > MinuteOfDay(end_time'))
          => (/\ filtered_coordinates' = <<>>
              /\ console' = <<NoCoordinates>>
              /\ view' = view)]_vars

C4_Witness ==
    /\ Pressed
    /\ data # <<>>
    /\ WellFormed(start_time) /\ WellFormed(end_time)
    /\ MinuteOfDay(start_time) > MinuteOfDay(end_time)
    /\ \E k \in 1..Len(data) : SampleMinute(data[k]) <= MinuteOfDay(end_time)
    /\ \E k \in 1..Len(data) : SampleMinute(data[k]) >= MinuteOfDay(start_time)
    /\ view.num > 0

\* C5: after a press that showed a figure, the center rotated about and the
\* midpoint of both axis limits is the bounding-box midpoint of the
\* coordinates this press's own window kept.
C5_CenterOfOwnFilteredSet ==
    Rendered =>
        /\ IsSelection(filtered_coordinates, data,
                       KeptByText(data, start_time, end_time))
        /\ IsBoxCenter(center, filtered_coordinates)
        /\ FAdd(view.ylim[1], view.ylim[2]) = FMul(Float(2), center[1])
        /\ FAdd(view.xlim[1], view.xlim[2]) = FMul(Float(2), center[2])
        /\ \A k \in 1..Len(filtered_coordinates) :
               <<view.ys[k], view.xs[k]>> =
                   RotatePoint(filtered_coordinates[k], cos(rotation_value),
                               sin(rotation_value), center)

\* a second figure whose center is neither that of the whole track nor that
\* of the figure before it
C5_Witness ==
    /\ Rendered
    /\ view.num = 2
    /\ Len(filtered_coordinates) = 2
    /\ Len(data) = 3
    /\ ~IsBoxCenter(center, [k \in 1..Len(data) |-> <<data[k][1], data[k][2]>>])
    /\ rotation_value = 45

\* C10: what the last press left - the kept coordinates, the printed line or
\* the figure - is decided by the loaded samples and the four values read at
\* that press; the samples stay those parsed from the file.
C10_OutcomeOfLastPressOnly ==
    Pressed =>
        LET K == KeptByText(data, start_time, end_time)
        IN  /\ data = parse_gpx(gpx)
            /\ IsSelection(filtered_coordinates, data, K)
            /\ (K = {} => console = <<NoCoordinates>>)
            /\ (K # {} =>
                   /\ console = <<>>
                   /\ center = plot_center(filtered_coordinates)
                   /\ rotated = rotate_coordinates(filtered_coordinates,
                                                   rotation_value, center)
                   /\ view = Figure(view.num, center, rotated,
                                    zoom_value, rotation_value))

\* a press that keeps nothing after a press that showed a figure
C10_Witness ==
    /\ Pressed
    /\ view.num = 1
    /\ filtered_coordinates = <<>>
    /\ data # <<>>
    /\ view.title # <<zoom_value, rotation_value>>

----------------------------------------------------------------------------
(* Properties of filter_coordinates_by_time *)

\* C3: for well-formed start_time and end_time the call returns exactly the
\* (lat, lon) pairs of the samples whose minute of the day lies between the
\* two, ends included, in recording order and with duplicates kept.
C3_FilterIsInclusiveSelection ==
    pc = "filtered" =>
        IsSelection(filtered_coordinates, data,
                    KeptByMinute(data, start_time, end_time))

\* a sample exactly at start_time and one exactly at end_time are kept, a
\* third one is dropped
C3_Witness ==
    /\ pc = "filtered"
    /\ Len(data) = 3
    /\ Len(filtered_coordinates) = 2
    /\ MinuteOfDay(start_time) < MinuteOfDay(end_time)
    /\ \E k \in KeptByMinute(data, start_time, end_time) :
           SampleMinute(data[k]) = MinuteOfDay(start_time)
    /\ \E k \in KeptByMinute(data, start_time, end_time) :
           /\ SampleMinute(data[k]) = MinuteOfDay(end_time)
           /\ data[k][3][3] > 0

----------------------------------------------------------------------------
(* Properties of plot_path *)

Width(lim) == FSub(lim[2], lim[1])
Extent(values) == FSub(max(values), min(values))

\* C6: at zoom 1 the axis limits of a shown figure are the smallest and the
\* largest latitude and longitude of the rotated coordinates it plots.
C6_Zoom1BoundsAreRotatedMinMax ==
    (view.num > 0 /\ view.title[1] = 10) =>
        /\ view.ylim = <<min(view.ys), max(view.ys)>>
        /\ view.xlim = <<min(view.xs), max(view.xs)>>

\* C7: at zoom 1 the two ranges of the limits are the extents of the plotted
\* rotated set and at zoom 2 they are half of them, so a figure at zoom 2
\* shown after one at zoom 1 has half its ranges; both windows have the
\* Center of the unrotated set as their midpoint.
C7_Zoom2HalvesRanges ==
    /\ [](view.num > 0 =>
            /\ IsBoxCenter(center, filtered_coordinates)
            /\ FAdd(view.ylim[1], view.ylim[2]) = FMul(Float(2), center[1])
            /\ FAdd(view.xlim[1], view.xlim[2]) = FMul(Float(2), center[2])
            /\ (view.title[1] = 10 =>
                   /\ Width(view.ylim) = Extent(view.ys)
                   /\ Width(view.xlim) = Extent(view.xs))
            /\ (view.title[1] = 20 =>
                   /\ FMul(Float(2), Width(view.ylim)) = Extent(view.ys)
                   /\ FMul(Float(2), Width(view.xlim)) = Extent(view.xs)))
    /\ [][(view.num > 0 /\ view.title[1] = 10 /\ view'.title[1] = 20) =>
            /\ FMul(Float(2), Width(view'.ylim)) = Width(view.ylim)
            /\ FMul(Float(2), Width(view'.xlim)) = Width(view.xlim)
            /\ FAdd(view'.ylim[1], view'.ylim[2]) = FAdd(view.ylim[1], view.ylim[2])
            /\ FAdd(view'.xlim[1], view'.xlim[2]) = FAdd(view.xlim[1], view.xlim[2])]_vars

\* a second figure, at zoom 2, of three points turned by 37 degrees, whose
\* window is not centred on the rotated set's own bounding box
C7_Witness ==
    /\ view.num = 2
    /\ view.title = <<20, 37>>
    /\ Len(filtered_coordinates) = 3
    /\ FLt(Float(0), Width(view.ylim))
    /\ FLt(Float(0), Width(view.xlim))
    /\ ~IsMidpoint(center[2], view.xs)

----------------------------------------------------------------------------
(* Properties of rotate_coordinates *)

\* the model's tolerance: a hundredth of the distance from the center
Tolerance == <<1, 100>>

Close(p, q, c) ==
    LET scale == FAdd(FAbs(FSub(q[1], c[1])), FAbs(FSub(q[2], c[2])))
    IN  /\ FLe(FAbs(FSub(p[1], q[1])), FMul(Tolerance, scale))
        /\ FLe(FAbs(FSub(p[2], q[2])), FMul(Tolerance, scale))

\* C8: rotating by an angle keeps the length and leaves a point lying on the
\* center where it is; rotating the result by the opposite angle about the
\* same center gives back every coordinate, in order, up to the tolerance.
C8_RotateRoundTrip ==
    /\ pc \in {"rotated", "restored"} =>
           Len(rotated) = Len(filtered_coordinates)
    /\ pc = "rotated" =>
           \A k \in 1..Len(filtered_coordinates) :
               filtered_coordinates[k] = center => rotated[k] = center
    /\ pc = "restored" =>
           \A k \in 1..Len(filtered_coordinates) :
               Close(rotated[k], filtered_coordinates[k], center)

\* three points, one of them the center, turned by 45 degrees and back; the
\* way back is not exact
C8_Witness ==
    /\ pc = "restored"
    /\ rotation_value = 45
    /\ Len(filtered_coordinates) = 3
    /\ \E k \in 1..3 : filtered_coordinates[k] = center
    /\ \E k \in 1..3 : rotated[k] # filtered_coordinates[k]

----------------------------------------------------------------------------
(* Properties of parse_gpx *)

\* the places <<track, segment, point>> of the points of a file with a time
TimedPlaces(file) ==
    UNION {UNION {{<<t, s, q>> : q \in {q \in 1..Len(file[t][s]) :
                                          file[t][s][q].time # None}} :
                  s \in 1..Len(file[t])} :
           t \in 1..Len(file)}

\* file order: tracks outer, segments middle, points inner
NotAfter(a, b) ==
    \/ a[1] < b[1]
    \/ a[1] = b[1] /\ a[2] < b[2]
    \/ a[1] = b[1] /\ a[2] = b[2] /\ a[3] <= b[3]

\* C9: parse_gpx returns exactly the points that carry a time, one sample
\* each, in file order; the points without a time are left out.
C9_ParseFlattensTimedPoints ==
    pc = "mainloop" =>
        LET places == TimedPlaces(gpx)
        IN  /\ Len(data) = Cardinality(places)
            /\ \A a \in places :
                   LET point == gpx[a[1]][a[2]][a[3]]
                   IN  data[Cardinality({b \in places : NotAfter(b, a)})] =
                           <<point.latitude, point.longitude, point.time>>

\* two tracks, a point without a time, and two timed points kept in order
C9_Witness ==
    /\ pc = "mainloop"
    /\ Len(gpx) >= 2
    /\ \E t \in 1..Len(gpx) : \E s \in 1..Len(gpx[t]) :
           \E q \in 1..Len(gpx[t][s]) : gpx[t][s][q].time = None
    /\ Len(data) = 2
    /\ data[1] # data[2]

====
